---- MODULE Spec2Model ----
(***************************************************************************)
(* Model of the orchestration loop of jade (src/main.rs): main, repl_step, *)
(* read_user_input, get_llm_response, handle_execution and                 *)
(* add_llm_correction.                                                     *)
(*                                                                         *)
(* Text is a sequence of tokens.  A token is a word, a marker, a blank     *)
(* " ", a newline "\n" or a backtick "BACKTICK".  The string functions    *)
(* the code uses (contains, split_once, trim, lines, replace, is_empty)    *)
(* are computed on token sequences.                                        *)
(***************************************************************************)
EXTENDS Integers, Sequences, FiniteSets, TLC

VARIABLES
    pc,              \* position of the single control flow
    history,         \* main: history, a Vec<Message>
    current_input,   \* repl_step: current_input
    attempts,        \* repl_step: attempts, an i8
    response,        \* repl_step: response, the cleaned reply last received
    outcome,         \* how the running / last repl_step call ended
    shell_log,       \* commands handed to the shell for the last reply, in order
    corrections,     \* add_llm_correction calls made for the last reply
    requests,        \* backend requests sent in this repl_step call
    aborts,          \* abort diagnostics printed in this repl_step call
    jade_said,       \* final messages printed in this repl_step call
    choices          \* free choices the environment has made in this run

vars == <<pc, history, current_input, attempts, response, outcome, shell_log,
          corrections, requests, aborts, jade_said, choices>>

----------------------------------------------------------------------------
(* Bounds of the model *)

\* free choices of the environment in a run: a line typed by the user that
\* starts a turn is one, a reply other than DefaultReply is one
MaxChoices == 2

\* turns that were played before the run starts
MaxPriorTurns == 50

----------------------------------------------------------------------------
(* Program constants *)

MaxAttempts == 10      \* if attempts > 10

HistoryLimit == 100    \* if history.len() > 100

TrimCount == 2         \* history.drain(0..2)

----------------------------------------------------------------------------
(* Strings *)

EXECUTE == <<"EXECUTE:">>

FINAL == <<"FINAL:">>

RESET_HARD == <<"reset", " ", "--hard">>

RM_RF == <<"rm", " ", "-rf">>

IsWhite(t) == t \in {" ", "\n"}

\* str::is_empty
IsEmpty(s) == Len(s) = 0

\* the positions at which pat occurs in s
Occurrences(s, pat) ==
    {i \in 1..(Len(s) - Len(pat) + 1) : SubSeq(s, i, i + Len(pat) - 1) = pat}

\* str::contains
Contains(s, pat) == Occurrences(s, pat) # {}

Min(S) == CHOOSE x \in S : \A y \in S : x <= y

\* str::split_once, where the pattern occurs: the text before the first
\* occurrence and the text after it
SplitOnce(s, pat) ==
    LET i == Min(Occurrences(s, pat))
    IN  <<SubSeq(s, 1, i - 1), SubSeq(s, i + Len(pat), Len(s))>>

Max(S) == CHOOSE x \in S : \A y \in S : x >= y

\* str::trim: the text from its first token that is not white space to its
\* last one
Trim(s) ==
    LET keep == {i \in 1..Len(s) : ~IsWhite(s[i])}
    IN  IF keep = {} THEN <<>> ELSE SubSeq(s, Min(keep), Max(keep))

\* str::replace of the backtick by nothing
RemoveBackticks(s) == SelectSeq(s, LAMBDA t : t # "BACKTICK")

\* the newlines of s before position i
NewlinesBefore(s, i) == Cardinality({j \in 1..(i - 1) : s[j] = "\n"})

\* the position of the k-th newline of s; 0 and Len(s) + 1 bound the text
NewlineAt(s, k) ==
    IF k = 0 THEN 0
    ELSE IF k > NewlinesBefore(s, Len(s) + 1) THEN Len(s) + 1
    ELSE CHOOSE i \in 1..Len(s) : s[i] = "\n" /\ NewlinesBefore(s, i) = k - 1

\* the pieces of s between newlines, the piece after the last newline included
SplitNewlines(s) ==
    [k \in 1..(NewlinesBefore(s, Len(s) + 1) + 1) |->
        SubSeq(s, NewlineAt(s, k - 1) + 1, NewlineAt(s, k) - 1)]

\* str::lines: a final line ending is optional, so a last empty piece is no line
Lines(s) ==
    LET p == SplitNewlines(s)
    IN  IF p[Len(p)] = <<>> THEN SubSeq(p, 1, Len(p) - 1) ELSE p

----------------------------------------------------------------------------
(* Messages *)

Message(role, content) == [role |-> role, content |-> content]

\* the text of the corrections
MixedText == <<"EXECUTE lines must contain ONLY the command.">>

StartText == <<"Command should start with EXECUTE.">>

EitherText == <<"Command should start with either FINAL: or EXECUTE.">>

DestructiveText == <<"Do NOT try to execute any destructive commands">>

OwnLineText == <<"Each EXECUTE command must be on its own line.">>

\* add_llm_correction: one user message pushed, no trimming
add_llm_correction(command, correction_message, h) ==
    Append(h, Message("user",
        <<"ERROR:", " ">> \o command \o <<" ", "command is invalid.", " ">>
            \o correction_message
            \o <<"\n", "Ensure future queries don't make this mistake again.">>))

----------------------------------------------------------------------------
(* The shell *)

\* What the host shell answers to a command: Command::output fails for a
\* command that holds a NUL byte (no process is spawned), "badcmd" exits with
\* a non-zero status and writes to stderr, every other command succeeds.
ShellOutput(command) ==
    IF Contains(command, <<"NUL">>)
    THEN [spawned |-> FALSE, stdout |-> <<>>, stderr |-> <<>>, success |-> FALSE]
    ELSE IF Contains(command, <<"badcmd">>)
    THEN [spawned |-> TRUE, stdout |-> <<>>,
          stderr |-> <<"stderr of">> \o command, success |-> FALSE]
    ELSE [spawned |-> TRUE, stdout |-> <<"stdout of">> \o command,
          stderr |-> <<>>, success |-> TRUE]

\* handle_execution with the second pattern of the destructive check left out
handle_execution_rm_unchecked(command) ==
    IF Contains(command, RESET_HARD)
    THEN [err |-> FALSE, shell |-> FALSE, output |-> DestructiveText,
          error |-> <<>>, executed |-> FALSE]
    ELSE IF Contains(command, EXECUTE)
    THEN [err |-> FALSE, shell |-> FALSE, output |-> OwnLineText,
          error |-> <<>>, executed |-> FALSE]
    ELSE LET o == ShellOutput(command)
         IN  IF ~o.spawned
             THEN [err |-> TRUE, shell |-> TRUE, output |-> <<>>,
                   error |-> <<>>, executed |-> FALSE]
             ELSE [err |-> FALSE, shell |-> TRUE, output |-> o.stdout,
                   error |-> o.stderr, executed |-> TRUE]

\* handle_execution.  err: the function returned Err (the ? on
\* Command::output); shell: Command::output was called with the command;
\* output, error, executed: the tuple returned
handle_execution(command) ==
    IF Contains(command, RESET_HARD) \/ Contains(command, RM_RF)
    THEN [err |-> FALSE, shell |-> FALSE, output |-> DestructiveText,
          error |-> <<>>, executed |-> FALSE]
    ELSE IF Contains(command, EXECUTE)
    THEN [err |-> FALSE, shell |-> FALSE, output |-> OwnLineText,
          error |-> <<>>, executed |-> FALSE]
    ELSE LET o == ShellOutput(command)
         IN  IF ~o.spawned
             THEN [err |-> TRUE, shell |-> TRUE, output |-> <<>>,
                   error |-> <<>>, executed |-> FALSE]
             ELSE [err |-> FALSE, shell |-> TRUE, output |-> o.stdout,
                   error |-> o.stderr, executed |-> TRUE]

----------------------------------------------------------------------------
(* repl_step: the loop over the lines of a reply *)

\* the block one executed command adds to feedback_buffer
FeedbackBlock(command, output, error) ==
    <<"Output of">> \o command \o <<":", "\n">> \o output \o <<"\n">>
        \o (IF ~IsEmpty(error) THEN <<"ERROR:", " ">> \o error \o <<"\n">>
            ELSE <<>>)

\* the locals of repl_step before the first line
ScanStart(h) ==
    [history |-> h, executed_something |-> FALSE, feedback_buffer |-> <<>>,
     shell_log |-> <<>>, corrections |-> 0, err |-> FALSE]

\* the body of the loop with the block put in front of feedback_buffer
ScanLine_prepend(st, line) ==
    IF Contains(Trim(line), EXECUTE)
    THEN LET command_cleaned == SplitOnce(Trim(line), EXECUTE)[2]
             r == handle_execution(command_cleaned)
         IN  IF IsEmpty(command_cleaned) THEN st
             ELSE IF r.err
             THEN [st EXCEPT !.err = TRUE,
                             !.shell_log = Append(@, command_cleaned)]
             ELSE IF ~r.executed
             THEN [st EXCEPT
                     !.history = add_llm_correction(command_cleaned, r.output, @),
                     !.corrections = @ + 1]
             ELSE [st EXCEPT
                     !.executed_something = TRUE,
                     !.feedback_buffer =
                         FeedbackBlock(command_cleaned, r.output, r.error) \o @,
                     !.shell_log = Append(@, command_cleaned)]
    ELSE [st EXCEPT !.history = add_llm_correction(Trim(line), StartText, @),
                    !.corrections = @ + 1]

\* the body of the loop over response.lines() for one line
ScanLine(st, line) ==
    IF Contains(Trim(line), EXECUTE)
    THEN LET command_cleaned == SplitOnce(Trim(line), EXECUTE)[2]
             r == handle_execution(command_cleaned)
         IN  IF IsEmpty(command_cleaned) THEN st
             ELSE IF r.err
             THEN [st EXCEPT !.err = TRUE,
                             !.shell_log = Append(@, command_cleaned)]
             ELSE IF ~r.executed
             THEN [st EXCEPT
                     !.history = add_llm_correction(command_cleaned, r.output, @),
                     !.corrections = @ + 1]
             ELSE [st EXCEPT
                     !.executed_something = TRUE,
                     !.feedback_buffer =
                         @ \o FeedbackBlock(command_cleaned, r.output, r.error),
                     !.shell_log = Append(@, command_cleaned)]
    ELSE [st EXCEPT !.history = add_llm_correction(Trim(line), StartText, @),
                    !.corrections = @ + 1]

\* the for loop left as well after the first correction
RECURSIVE ScanLines_stop(_, _, _)
ScanLines_stop(lines, i, st) ==
    IF i > Len(lines) \/ st.err \/ st.corrections > 0 THEN st
    ELSE ScanLines_stop(lines, i + 1, ScanLine(st, lines[i]))

\* the whole for loop, left at once when handle_execution returns Err
RECURSIVE ScanLines(_, _, _)
ScanLines(lines, i, st) ==
    IF i > Len(lines) \/ st.err THEN st
    ELSE ScanLines(lines, i + 1, ScanLine(st, lines[i]))

----------------------------------------------------------------------------
(* What the user types and what the model answers *)

\* lines read by the editor, before read_user_input trims them
InputLines == { <<"fix", " ", "it">>, <<" ", "fix", " ", "it", " ">>, <<>>, <<" ">> }

QuitLines == { <<"quit">>, <<" ", "exit">> }

\* the reply every round-trip may get without using up a choice
DefaultReply == <<"EXECUTE:", " ", "ls">>

\* message.content of the first choice of a backend response, as received
RawReplies == {
    DefaultReply,
    <<" ", "all", " ", "good", "\n", "FINAL:", " ", "done", "\n">>,
    <<"FINAL:">>,
    <<"EXECUTE:", " ", "BACKTICK", "pwd", "BACKTICK", "\n",
      "EXECUTE:", " ", "badcmd", "\n", "EXECUTE:", " ", "ls">>,
    <<"EXECUTE:", " ", "ls", "\n", "EXECUTE:", " ", "NUL", "\n",
      "EXECUTE:", " ", "pwd">>,
    <<"EXECUTE:", " ", "rm", " ", "BACKTICK", "-rf", "BACKTICK">>,
    <<"EXECUTE:", " ", "ls", "\n", "EXECUTE:", " ", "git", " ", "reset", " ",
      "--hard", "\n", "EXECUTE:", " ", "pwd">>,
    <<"EXECUTE:", " ", "ls", " ", "EXECUTE:", " ", "pwd">>,
    <<"EXECUTE:", " ", "ls", "\n", "\n", "EXECUTE:", " ", "pwd">>,
    <<"EXECUTE:">>,
    <<"EXECUTE:", " ", "\n", "EXECUTE:", " ", "ls">>,
    <<>>,
    <<"hello", "\n", "there">>,
    <<"EXECUTE:", " ", "ls", "\n", "FINAL:", " ", "done">>,
    <<"FINAL:", " ", "done", "\n", "EXECUTE:", " ", "rm", " ", "-rf">>,
    <<"EXECUTE:", " ", "ls", "\n", "EXECUTE:", " ", "pwd", "\n", "FINAL:">> }

----------------------------------------------------------------------------
(* History *)

\* the trimming with one message removed instead of two
TrimHistory_single(h) ==
    IF Len(h) > HistoryLimit THEN SubSeq(h, 2, Len(h)) ELSE h

\* get_llm_response: the trimming that follows the push of the reply
TrimHistory(h) ==
    IF Len(h) > HistoryLimit THEN SubSeq(h, TrimCount + 1, Len(h)) ELSE h

\* get_llm_response: system_msg, built from the prompt and the git status
\* that repl_step has taken for this turn
system_msg ==
    Message("system", <<"SYSTEM_PROMPT", "\n", "\n", "GIT STATUS:", "\n",
                        "git_status">>)

\* the push of the user input with the system message stored before it
PushUserInput_with_system(h, user_input) ==
    IF ~IsEmpty(Trim(user_input))
    THEN Append(Append(h, system_msg), Message("user", user_input))
    ELSE Append(h, system_msg)

\* get_llm_response up to the request: the user message is pushed when
\* user_input is not blank
PushUserInput(h, user_input) ==
    IF ~IsEmpty(Trim(user_input)) THEN Append(h, Message("user", user_input))
    ELSE h

\* get_llm_response: request_messages, the system message and after it a
\* copy of the history
RequestMessages(h) == <<system_msg>> \o h

\* get_llm_response after a successful request: the reply is cleaned
CleanReply(raw_text) == Trim(RemoveBackticks(raw_text))

\* get_llm_response after a successful request: the reply is pushed, then
\* the history is trimmed
PushReply(h, cleaned_text) ==
    TrimHistory(Append(h, Message("assistant", cleaned_text)))

----------------------------------------------------------------------------
(* repl_step: what follows the reply *)

\* the reply holds both markers
IsMixed(reply) == Contains(reply, FINAL) /\ Contains(reply, EXECUTE)

\* the loop left only when the final message is not empty
IsFinal_nonempty(reply) ==
    Contains(reply, FINAL) /\ ~IsEmpty(Trim(SplitOnce(reply, FINAL)[2]))

\* the loop left only by a reply that holds FINAL: and no EXECUTE:
IsFinal_not_mixed(reply) ==
    Contains(reply, FINAL) /\ ~Contains(reply, EXECUTE)

\* response.split_once("FINAL:") is Some: the loop is left
IsFinal(reply) == Contains(reply, FINAL)

\* the history after the check for a mixed reply
AfterMixedCheck(reply, h) ==
    IF IsMixed(reply) THEN add_llm_correction(reply, MixedText, h) ELSE h

\* nothing pushed when no command was executed
AfterLines_silent(reply, st) ==
    IF st.executed_something
    THEN Append(st.history, Message("user", st.feedback_buffer))
    ELSE st.history

\* the history after the for loop: the feedback buffer as one user message,
\* or one more correction when no command was executed
AfterLines(reply, st) ==
    IF st.executed_something
    THEN Append(st.history, Message("user", st.feedback_buffer))
    ELSE add_llm_correction(reply, EitherText, st.history)

\* the comparison of the attempts off by one
TooManyAttempts_off_by_one(n) == n >= MaxAttempts

\* the loop is left before a request is made
TooManyAttempts(n) == n > MaxAttempts

----------------------------------------------------------------------------
(* Turns played before the run starts *)

\* a reply of one EXECUTE line with a command that handle_execution refuses
RefusedReply == <<"EXECUTE:", " ", "rm", " ", "BACKTICK", "-rf", "BACKTICK">>

\* the history after one more turn in which the user typed a request, the
\* model answered RefusedReply, the loop over its lines and what follows it
\* pushed their messages, and the model then answered FINAL
PriorRefusedTurn(h) ==
    LET reply == CleanReply(RefusedReply)
        h1 == PushReply(PushUserInput(h, <<"fix", " ", "it">>), reply)
        st == ScanLines(Lines(reply), 1, ScanStart(AfterMixedCheck(reply, h1)))
        h2 == AfterLines(reply, st)
    IN  PushReply(PushUserInput(h2, <<>>),
                  CleanReply(<<"FINAL:", " ", "done">>))

\* the history after one more turn in which the user typed a request and the
\* model answered FINAL at once
PriorTurn(h) ==
    PushReply(PushUserInput(h, <<"fix", " ", "it">>),
              CleanReply(<<"FINAL:", " ", "done">>))

\* the history after n more such turns. The turns are split in two halves,
\* and the length of the first half is taken before the second starts, so
\* that TLC computes the first half at once and the evaluation stays shallow
RECURSIVE PriorTurns_from(_, _)
PriorTurns_from(h, n) ==
    IF n = 0 THEN h
    ELSE IF n = 1 THEN PriorTurn(h)
    ELSE LET first == PriorTurns_from(h, n \div 2)
         IN  IF Len(first) >= 0 THEN PriorTurns_from(first, n - (n \div 2))
             ELSE first

\* the history after n turns since the program started (main: the history
\* starts empty): the first turn was one with a refused command, the others
\* were answered FINAL at once
PriorHistory(n) ==
    IF n = 0 THEN <<>> ELSE PriorTurns_from(PriorRefusedTurn(<<>>), n - 1)

PriorTurns == {0, MaxPriorTurns - 1, MaxPriorTurns}

----------------------------------------------------------------------------
(* Initial state: main has set up the editor and the empty history, or has  *)
(* already played some turns                                                *)

Init ==
    /\ pc = "read"
    /\ history \in {PriorHistory(n) : n \in PriorTurns}
    /\ current_input = <<>>
    /\ attempts = 0
    /\ response = <<>>
    /\ outcome = "none"
    /\ shell_log = <<>>
    /\ corrections = 0
    /\ requests = 0
    /\ aborts = 0
    /\ jade_said = <<>>
    /\ choices = 0

----------------------------------------------------------------------------
(* Actions *)

\* main calls repl_step; read_user_input returns the trimmed line
ReadUserInput(line) ==
    /\ pc = "read"
    /\ choices < MaxChoices
    /\ Trim(line) \notin {<<"quit">>, <<"exit">>}
    /\ choices' = choices + 1
    /\ current_input' = Trim(line)
    /\ attempts' = 0
    /\ response' = <<>>
    /\ outcome' = "none"
    /\ shell_log' = <<>>
    /\ corrections' = 0
    /\ requests' = 0
    /\ aborts' = 0
    /\ jade_said' = <<>>
    /\ pc' = "loop"
    /\ UNCHANGED history

\* the process is gone: nothing of its state is left
Exited(how) ==
    /\ pc' = "exited"
    /\ outcome' = how
    /\ history' = <<>>
    /\ current_input' = <<>>
    /\ attempts' = 0
    /\ response' = <<>>
    /\ shell_log' = <<>>
    /\ corrections' = 0
    /\ requests' = 0
    /\ aborts' = 0
    /\ jade_said' = <<>>
    /\ UNCHANGED choices

\* read_user_input: quit, exit, an interrupt or the end of input end the
\* process with status 0
ReadExit ==
    /\ pc = "read"
    /\ Exited("quit")

\* read_user_input returns Err: repl_step returns it, main prints it and
\* calls repl_step again
ReadError ==
    /\ pc = "read"
    /\ outcome # "error"
    /\ outcome' = "error"
    /\ response' = <<>>
    /\ shell_log' = <<>>
    /\ corrections' = 0
    /\ requests' = 0
    /\ aborts' = 0
    /\ jade_said' = <<>>
    /\ UNCHANGED <<pc, history, current_input, attempts, choices>>

\* the head of the loop when the attempts are used up
Abort ==
    /\ pc = "loop"
    /\ TooManyAttempts(attempts)
    /\ aborts' = aborts + 1
    /\ outcome' = "aborted"
    /\ pc' = "read"
    /\ UNCHANGED <<history, current_input, attempts, response, shell_log,
                   corrections, requests, jade_said, choices>>

\* the head of the loop otherwise: get_llm_response pushes the user input
\* and sends the request
SendRequest ==
    /\ pc = "loop"
    /\ ~TooManyAttempts(attempts)
    /\ history' = PushUserInput(history, current_input)
    /\ requests' = requests + 1
    /\ pc' = "awaiting"
    /\ UNCHANGED <<current_input, attempts, response, outcome, shell_log,
                   corrections, aborts, jade_said, choices>>

\* the failure of the request told to the model as a correction
BackendFail_fed_back ==
    /\ pc = "awaiting"
    /\ outcome' = "error"
    /\ pc' = "read"
    /\ history' = add_llm_correction(<<>>, <<"backend error">>, history)
    /\ UNCHANGED <<current_input, attempts, response, shell_log,
                   corrections, requests, aborts, jade_said, choices>>

\* the request fails (transport, status or body): get_llm_response returns
\* Err, repl_step returns it, main prints it
BackendFail ==
    /\ pc = "awaiting"
    /\ outcome' = "error"
    /\ pc' = "read"
    /\ UNCHANGED <<history, current_input, attempts, response, shell_log,
                   corrections, requests, aborts, jade_said, choices>>

\* the response has no choices: choices[0] panics, the process ends
BackendNoChoice ==
    /\ pc = "awaiting"
    /\ Exited("panic")

\* the request succeeds: get_llm_response cleans the reply, pushes it, trims
\* the history and returns the reply
BackendReply(raw_text) ==
    /\ pc = "awaiting"
    /\ \/ raw_text = DefaultReply /\ choices' = choices
       \/ raw_text # DefaultReply /\ choices < MaxChoices /\ choices' = choices + 1
    /\ history' = PushReply(history, CleanReply(raw_text))
    /\ response' = CleanReply(raw_text)
    /\ shell_log' = <<>>
    /\ corrections' = 0
    /\ pc' = "process"
    /\ UNCHANGED <<current_input, attempts, outcome, requests, aborts, jade_said>>

\* the body of the loop after get_llm_response has returned the reply
ProcessReply ==
    /\ pc = "process"
    /\ current_input' = <<>>
    /\ LET h1 == AfterMixedCheck(response, history)
           n1 == IF IsMixed(response) THEN 1 ELSE 0
           clean_msg == Trim(SplitOnce(response, FINAL)[2])
           st == ScanLines(Lines(response), 1, ScanStart(h1))
       IN  IF IsFinal(response)
           THEN /\ history' = h1
                /\ corrections' = n1
                /\ jade_said' = IF ~IsEmpty(clean_msg)
                                THEN Append(jade_said, clean_msg) ELSE jade_said
                /\ outcome' = "finalized"
                /\ pc' = "read"
                /\ UNCHANGED <<attempts, shell_log>>
           ELSE IF st.err
           THEN /\ history' = st.history
                /\ corrections' = n1 + st.corrections
                /\ shell_log' = st.shell_log
                /\ outcome' = "error"
                /\ pc' = "read"
                /\ UNCHANGED <<attempts, jade_said>>
           ELSE /\ history' = AfterLines(response, st)
                /\ corrections' = n1 + st.corrections
                                     + (IF st.executed_something THEN 0 ELSE 1)
                /\ shell_log' = st.shell_log
                /\ attempts' = attempts + 1
                /\ pc' = "loop"
                /\ UNCHANGED <<outcome, jade_said>>
    /\ UNCHANGED <<response, requests, aborts, choices>>

Next ==
    \/ \E line \in InputLines \cup QuitLines : ReadUserInput(line)
    \/ ReadExit
    \/ ReadError
    \/ Abort
    \/ SendRequest
    \/ BackendFail
    \/ BackendNoChoice
    \/ \E raw_text \in RawReplies : BackendReply(raw_text)
    \/ ProcessReply

Spec == Init /\ [][Next]_vars

----------------------------------------------------------------------------
(* Vocabulary of the properties *)

InTurn == pc \in {"loop", "awaiting", "process"}

HoldsFinal(reply) == Contains(reply, FINAL)

HoldsExecute(reply) == Contains(reply, EXECUTE)

HoldsBoth(reply) == HoldsFinal(reply) /\ HoldsExecute(reply)

\* a message that add_llm_correction has built
IsCorrection(m) ==
    /\ m.role = "user"
    /\ Len(m.content) > 0
    /\ m.content[1] = "ERROR:"
    /\ Contains(m.content, <<"command is invalid.">>)

\* h2 is h with k messages pushed at its end
Pushed(h, h2, k) ==
    /\ Len(h2) = Len(h) + k
    /\ SubSeq(h2, 1, Len(h)) = h

\* the messages pushed at the end of h to give h2
NewMessages(h, h2) == SubSeq(h2, Len(h) + 1, Len(h2))

IsDestructive(command) ==
    Contains(command, RESET_HARD) \/ Contains(command, RM_RF)

\* the line holds the EXECUTE marker
IsExecuteLine(line) == Contains(Trim(line), EXECUTE)

\* the command text of an EXECUTE line
CommandOf(line) == SplitOnce(Trim(line), EXECUTE)[2]

\* the commands of the EXECUTE lines of a reply that hold a destructive
\* pattern
DestructiveCommands(reply) ==
    {CommandOf(Lines(reply)[i]) : i \in
        {j \in 1..Len(Lines(reply)) :
            /\ IsExecuteLine(Lines(reply)[j])
            /\ IsDestructive(CommandOf(Lines(reply)[j]))}}

InLog(command, log) == \E i \in 1..Len(log) : log[i] = command

----------------------------------------------------------------------------
(* Properties *)

\* C1: a command of an EXECUTE line that holds "reset --hard" or "rm -rf" is
\* never handed to the shell, whatever surrounds the pattern; when the lines
\* of the reply have been handled, a correction that names the command and
\* says it is destructive has been pushed for it.
C1_DestructiveNeverRuns ==
    [][ /\ \A i \in 1..Len(shell_log') : ~IsDestructive(shell_log'[i])
        /\ (pc = "process" /\ ~HoldsFinal(response) /\ outcome' # "error") =>
              \A c \in DestructiveCommands(response) :
                 \E k \in (Len(history) + 1)..Len(history') :
                    /\ IsCorrection(history'[k])
                    /\ Contains(history'[k].content, c)
                    /\ Contains(history'[k].content, DestructiveText) ]_vars

\* C1, its case: a reply with a destructive command between two harmless ones
\* has been handled; the harmless ones ran, one correction was made
C1_Witness ==
    /\ pc = "loop"
    /\ requests > 0
    /\ DestructiveCommands(response) # {}
    /\ corrections = 1
    /\ Len(shell_log) = 2

\* C2: the history never holds more than HistoryLimit messages.  Stated for
\* the states in which no push is under way: the loop is between two
\* round-trips, or the program waits for the user.
C2_HistoryBounded ==
    pc \in {"loop", "read"} => Len(history) <= HistoryLimit

\* C3: a reply that holds both FINAL: and EXECUTE: does not end the turn: the
\* turn is not finalized by it and its final message is not printed.
C3_MixedDoesNotTerminate ==
    HoldsBoth(response) => outcome # "finalized" /\ jade_said = <<>>

\* C4: handling a reply that holds both FINAL: and EXECUTE: pushes exactly one
\* message, a correction with role user, and hands no command to the shell.
C4_MixedOneCorrection ==
    [][ (pc = "process" /\ HoldsBoth(response)) =>
           /\ Pushed(history, history', 1)
           /\ IsCorrection(history'[Len(history')])
           /\ corrections' = 1
           /\ shell_log' = <<>> ]_vars

\* C4, its case: a mixed reply with two EXECUTE lines has been handled
C4_Witness ==
    /\ pc = "read"
    /\ HoldsBoth(response)
    /\ Len(Lines(response)) = 3
    /\ corrections = 1
    /\ shell_log = <<>>
    /\ IsCorrection(history[Len(history)])

\* C5: the counter starts at 0 and goes up by one with every round-trip that
\* does not finalize, so it equals the requests answered in this turn; no
\* request is in flight once it exceeds MaxAttempts, a turn sends at most
\* MaxAttempts + 1 requests, and the abort diagnostic is printed once, at the
\* end of a turn that has sent them all.
C5_AttemptBudget ==
    /\ requests <= MaxAttempts + 1
    /\ aborts <= 1
    /\ (pc = "loop" => attempts = requests)
    /\ (pc \in {"awaiting", "process"} => attempts = requests - 1)
    /\ (attempts > MaxAttempts => pc \in {"loop", "read"})
    /\ (outcome = "aborted" =>
           /\ pc = "read"
           /\ aborts = 1
           /\ attempts = MaxAttempts + 1
           /\ requests = MaxAttempts + 1)
    /\ (aborts = 1 => outcome = "aborted")

\* C5, its case: a turn has been aborted
C5_Witness ==
    /\ outcome = "aborted"
    /\ aborts = 1
    /\ requests = MaxAttempts + 1

\* C6: a turn that has started ends, and when it ends the program waits for
\* the next line of the user: the process has not exited.  Stated for the
\* step that ends a turn.
C6_TurnEndsAwaitingInput ==
    [][ (InTurn /\ ~InTurn') => pc' = "read" ]_vars

\* C7: a reply that holds FINAL: and no EXECUTE: ends the turn as finalized:
\* handling it pushes nothing, hands nothing to the shell, makes no
\* correction and leads to no request.
C7_FinalTerminates ==
    [][ (pc = "process" /\ HoldsFinal(response) /\ ~HoldsExecute(response)) =>
           /\ pc' = "read"
           /\ outcome' = "finalized"
           /\ history' = history
           /\ shell_log' = <<>>
           /\ corrections' = 0
           /\ requests' = requests ]_vars

\* C7, its case: a reply FINAL: with an empty message has ended a turn
C7_Witness ==
    /\ pc = "read"
    /\ outcome = "finalized"
    /\ response = FINAL
    /\ history[Len(history)] = Message("assistant", FINAL)

\* every line of the reply is an EXECUTE line with a command that
\* handle_execution lets through and the shell can start
AllAllowed(reply) ==
    /\ ~HoldsFinal(reply)
    /\ Len(Lines(reply)) > 0
    /\ \A i \in 1..Len(Lines(reply)) :
          /\ IsExecuteLine(Lines(reply)[i])
          /\ ~IsEmpty(CommandOf(Lines(reply)[i]))
          /\ ~IsDestructive(CommandOf(Lines(reply)[i]))
          /\ ~Contains(CommandOf(Lines(reply)[i]), EXECUTE)
          /\ ShellOutput(CommandOf(Lines(reply)[i])).spawned

\* the commands of the lines, in the order of the lines
CommandsOf(lines) == [i \in 1..Len(lines) |-> CommandOf(lines[i])]

\* the output blocks of the commands, one after the other
RECURSIVE BlocksOf(_)
BlocksOf(commands) ==
    IF commands = <<>> THEN <<>>
    ELSE FeedbackBlock(Head(commands), ShellOutput(Head(commands)).stdout,
                       ShellOutput(Head(commands)).stderr)
            \o BlocksOf(Tail(commands))

\* C8: for a reply made only of EXECUTE lines with allowed commands, the
\* commands are handed to the shell in the order of their lines, and when all
\* have run exactly one message is pushed: a user message that holds the
\* output block of every command in that order.
C8_OrderedSingleFeedback ==
    [][ (pc = "process" /\ AllAllowed(response)) =>
           /\ shell_log' = CommandsOf(Lines(response))
           /\ Pushed(history, history', 1)
           /\ history'[Len(history')] =
                 Message("user", BlocksOf(CommandsOf(Lines(response))))
           /\ corrections' = 0 ]_vars

\* C8, its case: a reply of three commands, the second failing, was handled
C8_Witness ==
    /\ pc = "loop"
    /\ AllAllowed(response)
    /\ Len(shell_log) = 3
    /\ history[Len(history)].content = BlocksOf(shell_log)

\* C9: a reply that holds neither EXECUTE: nor FINAL: hands nothing to the
\* shell, pushes corrections and nothing else, at least one, and the turn
\* goes on to the head of the loop with one more attempt counted.
C9_NoMarkerCorrected ==
    [][ (pc = "process" /\ ~HoldsExecute(response)
                        /\ ~HoldsFinal(response)) =>
           /\ shell_log' = <<>>
           /\ corrections' >= 1
           /\ Pushed(history, history', corrections')
           /\ \A k \in (Len(history) + 1)..Len(history') :
                 IsCorrection(history'[k])
           /\ pc' = "loop"
           /\ outcome' = "none"
           /\ attempts' = attempts + 1 ]_vars

\* C9, its case: an empty reply has been handled
C9_Witness ==
    /\ pc = "loop"
    /\ requests > 0
    /\ response = <<>>
    /\ corrections = 1
    /\ IsCorrection(history[Len(history)])

\* C10: when the request fails, the turn ends at once with the program
\* waiting for the user; the history is the one the request was sent with, no
\* command is run and no correction is made.
C10_BackendFailureLeavesHistory ==
    [][ (pc = "awaiting" /\ outcome' = "error") =>
           /\ pc' = "read"
           /\ history' = history
           /\ shell_log' = shell_log
           /\ corrections' = corrections
           /\ requests' = requests ]_vars

\* C10, its case: the first request of a turn has failed
C10_Witness ==
    /\ pc = "read"
    /\ outcome = "error"
    /\ requests = 1
    /\ response = <<>>
    /\ current_input # <<>>
    /\ history[Len(history)] = Message("user", current_input)

\* the history once the reply of the step has been pushed, before any trimming
WithReply(h, reply) == Append(h, Message("assistant", reply))

\* the step pushes the reply and trims the history
TrimStep ==
    /\ pc = "awaiting"
    /\ pc' = "process"
    /\ Len(history) + 1 > HistoryLimit

\* C11: a step that does not end the process either keeps the whole history,
\* with messages pushed at its end, or is a step that receives a reply with
\* more than HistoryLimit messages in store: then exactly the two oldest
\* messages go, and every other message, the new reply included, stays in
\* its order.
C11_TrimRemovesTwoOldest ==
    [][ pc' # "exited" =>
          IF TrimStep
          THEN /\ Len(history') = Len(history) + 1 - 2
               /\ \A i \in 1..Len(history') :
                     history'[i] = WithReply(history, response')[i + 2]
          ELSE /\ Len(history') >= Len(history)
               /\ SubSeq(history', 1, Len(history)) = history ]_vars

\* C11, its case: a reply was received with HistoryLimit + 2 messages in
\* store, and two were removed: more than HistoryLimit are left
C11_Witness ==
    /\ pc = "process"
    /\ Len(history) = HistoryLimit + 1
    /\ history[Len(history)] = Message("assistant", response)

\* C12: the two messages a trim removes are a user message and, after it, the
\* assistant message that answers it, and the oldest message a trim leaves
\* is a user message.
C12_TrimKeepsPairs ==
    [][ TrimStep =>
          /\ history[1].role = "user"
          /\ history[2].role = "assistant"
          /\ history'[1].role = "user" ]_vars

\* the EXECUTE lines of a reply, in their order
ExecuteLines(reply) == SelectSeq(Lines(reply), IsExecuteLine)

\* a command that the safety check lets through
IsApproved(command) ==
    /\ ~IsEmpty(command)
    /\ ~IsDestructive(command)
    /\ ~Contains(command, EXECUTE)

\* the approved commands of a reply, in the order of their lines
ApprovedCommands(reply) ==
    SelectSeq(CommandsOf(ExecuteLines(reply)), IsApproved)

\* C13: running the approved commands of a reply never ends the turn and
\* never makes repl_step return an error: whatever the commands do, the loop
\* goes on to its head, every approved command of the reply has been handed
\* to the shell, and the last message pushed is the feedback, a user message
\* that holds the output block of each of them.
C13_CommandFailureIsData ==
    [][ (pc = "process" /\ ~HoldsFinal(response)
                        /\ ApprovedCommands(response) # <<>>) =>
           /\ pc' = "loop"
           /\ outcome' # "error"
           /\ shell_log' = ApprovedCommands(response)
           /\ history'[Len(history')].role = "user"
           /\ \A i \in 1..Len(shell_log') :
                 Contains(history'[Len(history')].content,
                          <<"Output of">> \o shell_log'[i] \o <<":", "\n">>) ]_vars

ChatRoles == {"user", "assistant"}

\* the request in flight while the answer is awaited: get_llm_response built
\* it from the history, which has not changed since
RequestInFlight == RequestMessages(history)

\* C14: every message of the history has role user or assistant, in every
\* state; the request in flight starts with the system message, which is
\* its only message with role system.
C14_NoSystemInHistory ==
    /\ \A i \in 1..Len(history) : history[i].role \in ChatRoles
    /\ pc = "awaiting" =>
          /\ RequestInFlight[1].role = "system"
          /\ \A i \in 2..Len(RequestInFlight) :
                RequestInFlight[i].role \in ChatRoles

\* C14, its case: the third request of a turn is in flight, with the
\* corrections and the feedback of the turn in the history
C14_Witness ==
    /\ pc = "awaiting"
    /\ requests = 3
    /\ Len(history) > 3
    /\ \E i \in 1..Len(history) : IsCorrection(history[i])
    /\ RequestInFlight[1] = system_msg

\* a command that the safety check refuses
IsRefused(command) == ~IsEmpty(command) /\ ~IsApproved(command)

\* the reply has an EXECUTE line with a command that is refused
HasRefused(reply) ==
    \E i \in 1..Len(ExecuteLines(reply)) :
        IsRefused(CommandOf(ExecuteLines(reply)[i]))

IsPrefix(s, t) == Len(s) <= Len(t) /\ SubSeq(t, 1, Len(s)) = s

\* C15: a refusal does not stop the handling of a reply.  For a reply with a
\* refused command, the commands handed to the shell are the approved
\* commands of the reply, those before and those after the refused one, in
\* the order of their lines, and no other; the list is cut short only after
\* a command that could not be started, never after a refusal.
C15_RefusalContinues ==
    [][ (pc = "process" /\ ~HoldsFinal(response) /\ HasRefused(response)) =>
           /\ IsPrefix(shell_log', ApprovedCommands(response))
           /\ \A i \in 1..Len(shell_log') : ~IsRefused(shell_log'[i])
           /\ shell_log' # ApprovedCommands(response) =>
                 /\ shell_log' # <<>>
                 /\ ~ShellOutput(shell_log'[Len(shell_log')]).spawned ]_vars

\* C15, its case: a reply of three EXECUTE lines, the second one refused, has
\* been handled: the first and the third command ran
C15_Witness ==
    /\ pc = "loop"
    /\ requests > 0
    /\ Len(ExecuteLines(response)) = 3
    /\ IsRefused(CommandOf(ExecuteLines(response)[2]))
    /\ shell_log = <<CommandOf(ExecuteLines(response)[1]),
                     CommandOf(ExecuteLines(response)[3])>>

\* the reply is one EXECUTE line with a command that is refused
OneRefusedLine(reply) ==
    /\ ~HoldsFinal(reply)
    /\ Len(Lines(reply)) = 1
    /\ IsExecuteLine(Lines(reply)[1])
    /\ IsRefused(CommandOf(Lines(reply)[1]))

\* C16: handling a reply that is one EXECUTE line with a refused command
\* pushes exactly one message, the correction that carries the refusal, and
\* hands nothing to the shell.
C16_RefusalOneCorrection ==
    [][ (pc = "process" /\ OneRefusedLine(response)) =>
           /\ Pushed(history, history', 1)
           /\ IsCorrection(history'[Len(history')])
           /\ Contains(history'[Len(history')].content,
                       handle_execution(CommandOf(Lines(response)[1])).output)
           /\ corrections' = 1
           /\ shell_log' = <<>> ]_vars

\* C17: handling a reply that holds neither EXECUTE: nor FINAL: pushes exactly
\* one message, a correction, whatever the number of lines of the reply.
C17_NoMarkerOneCorrection ==
    [][ (pc = "process" /\ ~HoldsExecute(response)
                        /\ ~HoldsFinal(response)) =>
           /\ Pushed(history, history', 1)
           /\ IsCorrection(history'[Len(history')])
           /\ corrections' = 1 ]_vars

\* the line holds nothing but white space
IsBlankLine(line) == IsEmpty(Trim(line))

\* the reply has blank lines, and each of its other lines is an EXECUTE line
\* with an approved command that the shell can start
BlankBetweenCommands(reply) ==
    /\ ~HoldsFinal(reply)
    /\ \E i \in 1..Len(Lines(reply)) : IsBlankLine(Lines(reply)[i])
    /\ \E i \in 1..Len(Lines(reply)) : ~IsBlankLine(Lines(reply)[i])
    /\ \A i \in 1..Len(Lines(reply)) :
          \/ IsBlankLine(Lines(reply)[i])
          \/ /\ IsExecuteLine(Lines(reply)[i])
             /\ IsApproved(CommandOf(Lines(reply)[i]))
             /\ ShellOutput(CommandOf(Lines(reply)[i])).spawned

\* C18: a blank line of a reply is passed over.  Handling a reply made of
\* valid EXECUTE lines with blank lines between them runs the commands and
\* pushes exactly one message, the feedback with their output blocks, and no
\* correction.
C18_BlankLineIgnored ==
    [][ (pc = "process" /\ BlankBetweenCommands(response)) =>
           /\ shell_log' = ApprovedCommands(response)
           /\ Pushed(history, history', 1)
           /\ history'[Len(history')] =
                 Message("user", BlocksOf(ApprovedCommands(response)))
           /\ corrections' = 0 ]_vars

\* the reply has an EXECUTE line with no command text
HasEmptyCommand(reply) ==
    \E i \in 1..Len(ExecuteLines(reply)) :
        IsEmpty(CommandOf(ExecuteLines(reply)[i]))

\* C19: when the lines of a reply with an EXECUTE line without command text
\* have been handled, a correction has been pushed, also when other commands
\* of the reply ran.
C19_EmptyCommandCorrected ==
    [][ (pc = "process" /\ ~HoldsFinal(response)
                        /\ HasEmptyCommand(response)
                        /\ outcome' # "error") =>
           /\ corrections' >= 1
           /\ \E k \in (Len(history) + 1)..Len(history') :
                 IsCorrection(history'[k]) ]_vars

\* C20: a line of the user that is empty once trimmed starts no turn: the
\* program goes on waiting, with no request sent and the history as it was.
\* So the history of every request sent ends with a user message.
C20_EmptyInputStartsNoTurn ==
    [][ /\ (pc = "read" /\ pc' = "loop") => ~IsEmpty(current_input')
        /\ pc' = "awaiting" =>
              /\ Len(history') > 0
              /\ history'[Len(history')].role = "user" ]_vars

====
